---------------------------- MODULE Spec2Model ----------------------------
(***************************************************************************)
(* A model of bin/create_hugo_yaml.py: export_anthology, which turns the   *)
(* loaded Anthology object graph into the paper, people, volume, venue and *)
(* SIG indexes and dumps them as YAML files, and the script's main block,  *)
(* which decides the exit status from the severity tracker.                *)
(*                                                                         *)
(* Python values are modelled as follows.  A dict is a function whose      *)
(* domain is its key set.  A list is a sequence.  A string that the code   *)
(* indexes or sorts (a slug, a volume id, str(year)) and a name are        *)
(* sequences of one-character strings, ordered by code point; other        *)
(* strings are TLA+ strings. A raised exception is the outcome Raise.                        *)
(***************************************************************************)
EXTENDS Integers, Sequences, FiniteSets, TLC

(***************************************************************************)
(* Bounds of the model.                                                    *)
(***************************************************************************)
MaxPapers == 2
MaxVolumes == 2
MaxPersonPapers == 3

(***************************************************************************)
(* Python built-ins.                                                       *)
(***************************************************************************)
\* The outcome of a computation: a value, or a raised exception.
Ok(v) == [ok |-> TRUE, val |-> v]
Raise == [ok |-> FALSE, val |-> <<>>]

EmptyDict == [k \in {} |-> 0]

\* d[k] = v
DictSet(d, k, v) == [x \in DOMAIN d \cup {k} |-> IF x = k THEN v ELSE d[x]]

\* del d[k]
DictDel(d, k) == [x \in DOMAIN d \ {k} |-> d[x]]

Range(s) == {s[i] : i \in 1..Len(s)}

Reverse(s) == [i \in 1..Len(s) |-> s[Len(s) + 1 - i]]

\* The characters the ids, slugs and digits of the model are made of, in
\* code point order.
Alphabet ==
    << "-", "0", "1", "2", "3", "4", "5", "6", "7", "8", "9",
       "P", "V", "W", "X", "a", "d", "e", "h", "i", "j", "n", "o", "s", "t" >>

\* ord(c), up to the order-preserving renumbering of the alphabet.
Ord(c) == CHOOSE i \in 1..Len(Alphabet) : Alphabet[i] = c

\* The sort key of a string: its code points.
StrKey(s) == [i \in 1..Len(s) |-> Ord(s[i])]

\* The sort key of an int.
IntKey(n) == <<n>>

\* a <= b for two sort keys (sequences of naturals): Python's ordering of
\* strings, and of ints as one-element keys.
RECURSIVE KeyLeq(_, _)
KeyLeq(a, b) ==
    IF a = <<>> THEN TRUE
    ELSE IF b = <<>> THEN FALSE
    ELSE IF a[1] # b[1] THEN a[1] < b[1]
    ELSE KeyLeq(Tail(a), Tail(b))

\* One step of a stable ascending sort: x goes after every element of the
\* sorted t whose key is <= its own.
StableInsert(t, x) ==
    LET k == Cardinality({j \in 1..Len(t) : KeyLeq(t[j][1], x[1])})
    IN  SubSeq(t, 1, k) \o <<x>> \o SubSeq(t, k + 1, Len(t))

\* list.sort() on <<key, element>> pairs: stable, ascending by key.
StableSort(s) ==
    LET f[i \in 0..Len(s)] ==
            IF i = 0 THEN <<>> ELSE StableInsert(f[i - 1], s[i])
    IN  f[Len(s)]

\* A faulty variant of PySorted: reverse=True by reversing the ascending
\* result, which turns the order of equal keys around.
PySortedReversingTies(s, reverse) ==
    LET r == StableSort(s)
        o == IF reverse THEN Reverse(r) ELSE r
    IN  [i \in 1..Len(o) |-> o[i][2]]

\* sorted(iterable, key=..., reverse=...), given the <<key(x), x>> pairs in
\* the iterable's order.  As CPython does it: with reverse the list is
\* reversed, sorted stably ascending, and reversed again, which keeps the
\* original order of elements with equal keys.
PySorted(s, reverse) ==
    LET r == IF reverse THEN Reverse(StableSort(Reverse(s))) ELSE StableSort(s)
    IN  [i \in 1..Len(r) |-> r[i][2]]

\* The elements of a set in the order Python iterates over it: some fixed
\* order.
RECURSIVE SetToSeq(_)
SetToSeq(S) ==
    IF S = {} THEN <<>>
    ELSE LET x == CHOOSE y \in S : TRUE IN <<x>> \o SetToSeq(S \ {x})

\* str(n) for a natural n: its decimal digits.
RECURSIVE PyStr(_)
PyStr(n) ==
    LET digit == Alphabet[(n % 10) + 2]
    IN  IF n < 10 THEN <<digit>> ELSE Append(PyStr(n \div 10), digit)


(***************************************************************************)
(* The object graph: the collaborators of export_anthology.                *)
(***************************************************************************)
Jane == <<"J", "a", "n", "e", " ", "D", "o", "e">>
JDoe == <<"J", ".", " ", "D", "o", "e">>
Ann == <<"A", "n", "n", " ", "S">>
\* A name no slug is registered for.
Ghost == <<"G", "h", "o", "s", "t">>

RegisteredNames == <<Jane, JDoe, Ann>>

\* anthology.people.slugs: each registered name's slug.
Slugs ==
    [n \in Range(RegisteredNames) |->
        CASE n = Jane -> <<"j", "a", "n", "e", "-", "d", "o", "e">>
          [] n = JDoe -> <<"j", "-", "d", "o", "e">>
          [] n = Ann  -> <<"a", "n", "n", "-", "s">>]

PaperIds == <<"P19-1001", "P19-1002", "W19-5001">>
\* A paper id that is in no papers collection.
NoPaper == "X00-0000"

\* paper.top_level_id, a prefix of the full id.
TopLevelOf(id) == IF id = "W19-5001" THEN "W19" ELSE "P19"

Years == {2018, 2019}

\* Volume ids, as strings the venue index sorts.
V1 == <<"P", "1", "9", "-", "1">>
V10 == <<"P", "1", "9", "-", "1", "0">>
V2 == <<"P", "1", "9", "-", "2">>
VolumeIds == <<V10, V2, V1>>
\* A volume id that is in no volumes collection.
NoVolume == <<"X", "0", "0", "-", "0">>

\* A paper's raw-markup value of a field.
Xml(field, id) == <<"xml", field, id>>

\* A Paper object.  attrib holds 'xml_booktitle' / 'xml_abstract' for the
\* fields in opt, and 'author' / 'editor' when the list is not empty.
Paper(id, year, opt, author, editor) ==
    [ full_id |-> id,
      top_level_id |-> TopLevelOf(id),
      attrib |->
        [k \in {"title", "xml_title", "year"} \cup opt
               \cup (IF author = <<>> THEN {} ELSE {"author"})
               \cup (IF editor = <<>> THEN {} ELSE {"editor"}) |->
            CASE k = "title"  -> <<"text", id>>
              [] k = "year"   -> year
              [] k = "author" -> author
              [] k = "editor" -> editor
              [] OTHER        -> Xml(k, id)] ]

\* A Volume object.
Volume(id, year, opt, editor, paper_ids) ==
    [ full_id |-> id,
      paper_ids |-> paper_ids,
      attrib |->
        [k \in {"title", "xml_title", "year"} \cup opt
               \cup (IF editor = <<>> THEN {} ELSE {"editor"}) |->
            CASE k = "title"  -> <<"text", id>>
              [] k = "year"   -> year
              [] k = "editor" -> editor
              [] OTHER        -> Xml(k, id)] ]

\* One item of anthology.venues: the acronym and the venue's dict.
Venue(acronym, years, volumes) ==
    [ acronym |-> acronym,
      data |-> [k \in {"acronym", "is_acl", "years", "volumes"} |->
                  CASE k = "acronym" -> acronym
                    [] k = "is_acl"  -> TRUE
                    [] k = "years"   -> years
                    [] k = "volumes" -> volumes] ]

\* One item of anthology.sigs.
Sig(acronym, years) ==
    [ acronym |-> acronym,
      name |-> <<"name", acronym>>,
      slug |-> <<"slug", acronym>>,
      url |-> <<"url", acronym>>,
      volumes_by_year |-> [y \in years |-> <<V1>>],
      years |-> years ]


(***************************************************************************)
(* The collaborators' methods export_anthology calls.                      *)
(***************************************************************************)
\* paper.as_dict(): an export of the paper's fields.
as_dict(obj) == obj.attrib

\* name.as_dict(): the name's own fields.
name_as_dict(name) == [k \in {"full"} |-> name]

\* anthology.people.get_papers(name, include_variants=True)
get_papers(people, name) == people.papers[name]

\* anthology.people.get_coauthors(name, include_variants=True)
get_coauthors(people, name) == people.coauthors[name]

\* anthology.people.get_venues(anthology.venues, name,
\* include_variants=True).items()
get_venues(people, name) == people.venues[name]

\* paper.get_title("html"), get_booktitle, get_abstract, volume.get_title:
\* the field's raw markup rendered in the given form.
get_field(obj, field, form) == <<form, obj.attrib[field]>>

\* anthology.people.get_slug(name): a lookup that fails for an unknown name.
get_slug(people, name) ==
    IF name \in DOMAIN people.slugs THEN Ok(people.slugs[name]) ELSE Raise

is_canonical(people, name) == people.canonical[name] = name

get_canonical_variant(people, name) == people.canonical[name]

\* The registered variants of a canonical name, in the order of names().
get_registered_variants(people, name) ==
    SelectSeq(people.names,
              LAMBDA n : n # name /\ people.canonical[n] = name)

has_variants(people, name) == get_registered_variants(people, name) # <<>>

\* anthology.papers.get(p): the paper, or None.
papers_get(anthology, p) ==
    LET hits == SelectSeq(anthology.papers, LAMBDA q : q.full_id = p)
    IN  IF hits = <<>> THEN Raise ELSE Ok(hits[1])

(***************************************************************************)
(* export_anthology: the records.                                          *)
(***************************************************************************)
\* [anthology.people.get_slug(name) for name in names]
SlugList(people, names) ==
    IF \A i \in 1..Len(names) : get_slug(people, names[i]).ok
    THEN Ok([i \in 1..Len(names) |-> get_slug(people, names[i]).val])
    ELSE Raise

\* if key in data: data[key] = [get_slug(name) for name in data[key]]
ResolveNames(people, data, key) ==
    IF key \notin DOMAIN data THEN Ok(data)
    ELSE LET slugs == SlugList(people, data[key])
         IN  IF slugs.ok THEN Ok(DictSet(data, key, slugs.val)) ELSE Raise

\* if "xml_<field>" in data: data["<field>_html"] = ...; del data["xml_<field>"]
RenderHtml(obj, data, xml_key, html_key) ==
    IF xml_key \in DOMAIN data
    THEN DictDel(DictSet(data, html_key, get_field(obj, xml_key, "html")), xml_key)
    ELSE data

\* A faulty variant of PaperData: the raw-markup booktitle and abstract are
\* kept beside their HTML forms.
PaperDataKeepingMarkup(anthology, paper) ==
    LET d0 == as_dict(paper)
        d1 == DictDel(DictSet(d0, "title_html", get_field(paper, "xml_title", "html")),
                      "xml_title")
        d2 == IF "xml_booktitle" \in DOMAIN d1
              THEN DictSet(d1, "booktitle_html", get_field(paper, "xml_booktitle", "html"))
              ELSE d1
        d3 == IF "xml_abstract" \in DOMAIN d2
              THEN DictSet(d2, "abstract_html", get_field(paper, "xml_abstract", "html"))
              ELSE d2
        d4 == ResolveNames(anthology.people, d3, "author")
    IN  IF ~d4.ok THEN Raise ELSE ResolveNames(anthology.people, d4.val, "editor")

\* The body of the paper loop: the record of one paper.
PaperData(anthology, paper) ==
    LET d0 == as_dict(paper)
        d1 == DictSet(d0, "title_html", get_field(paper, "xml_title", "html"))
    IN  IF "xml_title" \notin DOMAIN d1 THEN Raise
        ELSE LET d2 == DictDel(d1, "xml_title")
                 d3 == RenderHtml(paper, d2, "xml_booktitle", "booktitle_html")
                 d4 == RenderHtml(paper, d3, "xml_abstract", "abstract_html")
                 d5 == ResolveNames(anthology.people, d4, "author")
             IN  IF ~d5.ok THEN Raise
                 ELSE ResolveNames(anthology.people, d5.val, "editor")

\* A defaultdict(dict) with the insertion order of its keys.
EmptyIndex == [order |-> <<>>, map |-> EmptyDict]

\* A faulty variant of IndexPut: the bucket is replaced, not added to.
IndexPutReplacing(ix, outer, inner, data) ==
    [ order |-> IF outer \in Range(ix.order) THEN ix.order
                ELSE Append(ix.order, outer),
      map |-> DictSet(ix.map, outer, DictSet(EmptyDict, inner, data)) ]

\* index[outer][inner] = data
IndexPut(ix, outer, inner, data) ==
    [ order |-> IF outer \in Range(ix.order) THEN ix.order
                ELSE Append(ix.order, outer),
      map |-> DictSet(ix.map, outer,
                      DictSet(IF outer \in DOMAIN ix.map THEN ix.map[outer]
                              ELSE EmptyDict,
                              inner, data)) ]

\* The paper loop: the papers index, or the exception that ends the loop.
PaperIndex(anthology) ==
    LET ps == anthology.papers
        f[i \in 0..Len(ps)] ==
            IF i = 0 THEN Ok(EmptyIndex)
            ELSE LET prev == f[i - 1]
                     d == PaperData(anthology, ps[i])
                 IN  IF ~prev.ok \/ ~d.ok THEN Raise
                     ELSE Ok(IndexPut(prev.val, ps[i].top_level_id,
                                      ps[i].full_id, d.val))
    IN  f[Len(ps)]


\* sorted(get_papers(name, include_variants=True),
\*        key=lambda p: anthology.papers.get(p).get("year"), reverse=True)
PersonPapers(anthology, name) ==
    LET ps == get_papers(anthology.people, name)
    IN  IF \E i \in 1..Len(ps) : ~papers_get(anthology, ps[i]).ok THEN Raise
        ELSE Ok(PySorted(
                 [i \in 1..Len(ps) |->
                    <<IntKey(papers_get(anthology, ps[i]).val.attrib["year"]), ps[i]>>],
                 TRUE))

\* sorted([[get_slug(co_name), count] for ...], key=lambda p: p[1], reverse=True)
PersonCoauthors(anthology, name) ==
    LET co == get_coauthors(anthology.people, name)
        slugs == SlugList(anthology.people, [i \in 1..Len(co) |-> co[i][1]])
    IN  IF ~slugs.ok THEN Raise
        ELSE Ok(PySorted(
                 [i \in 1..Len(co) |->
                    <<IntKey(co[i][2]), <<slugs.val[i], co[i][2]>> >>],
                 TRUE))

\* sorted([[venue, count] for ...], key=lambda p: p[1], reverse=True)
PersonVenues(anthology, name) ==
    LET vs == get_venues(anthology.people, name)
    IN  PySorted([i \in 1..Len(vs) |-> <<IntKey(vs[i][2]), vs[i]>>], TRUE)

\* The canonical branch of the people loop.
CanonicalData(anthology, name, data) ==
    LET people == anthology.people
        ps == PersonPapers(anthology, name)
        co == PersonCoauthors(anthology, name)
        d3 == DictSet(DictSet(DictSet(data, "papers", ps.val),
                              "coauthors", co.val),
                      "venues", PersonVenues(anthology, name))
        variants == SlugList(people, get_registered_variants(people, name))
    IN  IF ~ps.ok \/ ~co.ok THEN Raise
        ELSE IF ~has_variants(people, name) THEN Ok(d3)
        ELSE IF ~variants.ok THEN Raise
        ELSE Ok(DictSet(d3, "variant_entries", variants.val))

\* The variant branch of the people loop.
VariantData(anthology, name, data) ==
    LET canonical == get_slug(anthology.people,
                              get_canonical_variant(anthology.people, name))
    IN  IF ~canonical.ok THEN Raise
        ELSE Ok(DictSet(data, "canonical_entry", canonical.val))

\* A faulty variant of PersonData: every name gets the canonical record.
PersonDataAllCanonical(anthology, name) ==
    LET slug == get_slug(anthology.people, name)
    IN  IF ~slug.ok THEN Raise
        ELSE CanonicalData(anthology, name,
                           DictSet(name_as_dict(name), "slug", slug.val))

\* The body of the people loop: the record of one name.
PersonData(anthology, name) ==
    LET slug == get_slug(anthology.people, name)
    IN  IF ~slug.ok THEN Raise
        ELSE LET data == DictSet(name_as_dict(name), "slug", slug.val)
             IN  IF is_canonical(anthology.people, name)
                 THEN CanonicalData(anthology, name, data)
                 ELSE VariantData(anthology, name, data)

\* A faulty variant of Bucket: the slug's last character.
BucketByLast(slug) == slug[Len(slug)]

\* slug[0]
Bucket(slug) == slug[1]

\* The people loop: the people index, or the exception that ends the loop.
PeopleIndex(anthology) ==
    LET ns == anthology.people.names
        f[i \in 0..Len(ns)] ==
            IF i = 0 THEN Ok(EmptyIndex)
            ELSE LET prev == f[i - 1]
                     d == PersonData(anthology, ns[i])
                 IN  IF ~prev.ok \/ ~d.ok THEN Raise
                     ELSE Ok(IndexPut(prev.val, Bucket(d.val["slug"]),
                                      d.val["slug"], d.val))
    IN  f[Len(ns)]


\* The body of the volume loop.  data is volume.attrib itself, not a copy:
\* every assignment and del acts on the Volume object.  attrib is the
\* object's attribute set when the body ends, by return or by exception.
VolumeData(people, volume) ==
    LET a1 == DictSet(volume.attrib, "title_html",
                      get_field(volume, "xml_title", "html"))
        a2 == DictDel(a1, "xml_title")
        a3 == DictDel(a2, "xml_abstract")
        a4 == DictSet(a3, "papers", volume.paper_ids)
        r5 == ResolveNames(people, a4, "author")
        r6 == ResolveNames(people, r5.val, "editor")
    IN  IF "xml_title" \notin DOMAIN a1 THEN [ok |-> FALSE, attrib |-> a1]
        ELSE IF ~r5.ok THEN [ok |-> FALSE, attrib |-> a4]
        ELSE IF ~r6.ok THEN [ok |-> FALSE, attrib |-> r5.val]
        ELSE [ok |-> TRUE, attrib |-> r6.val]

\* The volume loop: the volumes index (volumes), the Volume objects as the
\* loop leaves them (objects), and whether it ended without an exception.
VolumeIndex(anthology) ==
    LET vs == anthology.volumes
        f[i \in 0..Len(vs)] ==
            IF i = 0 THEN [ok |-> TRUE, objects |-> vs, volumes |-> EmptyDict]
            ELSE LET prev == f[i - 1]
                     d == VolumeData(anthology.people, vs[i])
                 IN  IF ~prev.ok THEN prev
                     ELSE [ ok |-> d.ok,
                            objects |-> [prev.objects EXCEPT ![i].attrib = d.attrib],
                            volumes |-> IF d.ok
                                        THEN DictSet(prev.volumes, vs[i].full_id, d.attrib)
                                        ELSE prev.volumes ]
    IN  f[Len(vs)]

\* A faulty variant of VolumesOfYear: the volumes of any of the venue's years.
VolumesOfAnyYear(volumes, data, year) ==
    LET hits == SetToSeq({k \in data["volumes"] : volumes[k]["year"] \in data["years"]})
    IN  PySorted([i \in 1..Len(hits) |-> <<StrKey(hits[i]), hits[i]>>], FALSE)

\* sorted(filter(lambda k: volumes[k]["year"] == year, data["volumes"]))
VolumesOfYear(volumes, data, year) ==
    LET hits == SetToSeq({k \in data["volumes"] : volumes[k]["year"] = year})
    IN  PySorted([i \in 1..Len(hits) |-> <<StrKey(hits[i]), hits[i]>>], FALSE)

\* sorted(data["years"])
SortedYears(years) ==
    LET ys == SetToSeq(years)
    IN  PySorted([i \in 1..Len(ys) |-> <<IntKey(ys[i]), ys[i]>>], FALSE)

\* A faulty variant of VenueData: a volume id that is not in the volumes
\* index is passed over.
VenueDataSkippingUnknown(volumes, venue) ==
    LET data == venue.data
        known == DictSet(data, "volumes", data["volumes"] \cap DOMAIN volumes)
        by_year == [y \in data["years"] |-> VolumesOfYear(volumes, known, y)]
    IN  Ok(DictDel(DictSet(DictSet(data, "volumes_by_year", by_year),
                           "years", SortedYears(data["years"])),
                   "volumes"))

\* The body of the venue loop, on a copy of the venue's dict.  The filter
\* looks every volume id of the venue up, once per year.
VenueData(volumes, venue) ==
    LET data == venue.data
        by_year == [y \in data["years"] |-> VolumesOfYear(volumes, data, y)]
    IN  IF data["years"] # {} /\ ~(data["volumes"] \subseteq DOMAIN volumes)
        THEN Raise
        ELSE Ok(DictDel(DictSet(DictSet(data, "volumes_by_year", by_year),
                                "years", SortedYears(data["years"])),
                        "volumes"))

\* The venue loop.
VenueIndex(anthology, volumes) ==
    LET vs == anthology.venues
        f[i \in 0..Len(vs)] ==
            IF i = 0 THEN Ok(EmptyDict)
            ELSE LET prev == f[i - 1]
                     d == VenueData(volumes, vs[i])
                 IN  IF ~prev.ok \/ ~d.ok THEN Raise
                     ELSE Ok(DictSet(prev.val, vs[i].acronym, d.val))
    IN  f[Len(vs)]

\* The body of the SIG loop.
SigData(sig) ==
    [k \in {"name", "slug", "url", "volumes_by_year", "years"} |->
        CASE k = "name" -> sig.name
          [] k = "slug" -> sig.slug
          [] k = "url"  -> sig.url
          [] k = "volumes_by_year" -> sig.volumes_by_year
          [] k = "years" ->
                LET ys == SetToSeq(sig.years)
                IN  PySorted([i \in 1..Len(ys) |->
                                <<StrKey(PyStr(ys[i])), PyStr(ys[i])>>], FALSE)]

\* The SIG loop.
SigIndex(anthology) ==
    LET ss == anthology.sigs
        f[i \in 0..Len(ss)] ==
            IF i = 0 THEN EmptyDict
            ELSE DictSet(f[i - 1], ss[i].acronym, SigData(ss[i]))
    IN  f[Len(ss)]


(***************************************************************************)
(* The anthologies the model loads.  Each family varies one collection     *)
(* over all its shapes within the bounds and keeps the others at a base    *)
(* shape that is consistent with it.                                       *)
(***************************************************************************)
\* The strictly increasing index sequences of length m into 1..n.
Increasing(m, n) ==
    {s \in [1..m -> 1..n] : \A j \in 1..m : \A k \in 1..m : j < k => s[j] < s[k]}

\* The sequences of length <= n without repetition over the set S.
Injective(S, n) ==
    UNION {{s \in [1..m -> S] : \A j \in 1..m : \A k \in 1..m : j # k => s[j] # s[k]}
           : m \in 0..n}

YearOfId(id) == IF id = "P19-1002" THEN 2018 ELSE 2019

\* The names of a paper's author and editor lists.
NamesOn(paper) ==
    (IF "author" \in DOMAIN paper.attrib THEN Range(paper.attrib["author"]) ELSE {})
    \cup (IF "editor" \in DOMAIN paper.attrib THEN Range(paper.attrib["editor"]) ELSE {})

\* The ids of the papers that carry one of the names, in the papers' order.
Attributed(papers, names) ==
    LET hits == SelectSeq(papers, LAMBDA q : NamesOn(q) \cap names # {})
    IN  [i \in 1..Len(hits) |-> hits[i].full_id]

\* The canonical name of each registered name: J. Doe is a variant of Jane
\* Doe, Jane Doe a variant of J. Doe, or both are canonical.
CanonicalMaps ==
    { [n \in Range(RegisteredNames) |-> IF n = JDoe THEN Jane ELSE n],
      [n \in Range(RegisteredNames) |-> IF n = Jane THEN JDoe ELSE n],
      [n \in Range(RegisteredNames) |-> n] }

\* The identity cluster of a name: the names with its canonical name.
Cluster(canonical, name) ==
    {n \in DOMAIN canonical : canonical[n] = canonical[name]}

\* The people index of an anthology, given each name's enumeration of papers.
People(canonical, papers_of) ==
    [ names |-> RegisteredNames,
      slugs |-> Slugs,
      canonical |-> canonical,
      papers |-> papers_of,
      coauthors |-> [n \in Range(RegisteredNames) |->
                        IF n = Ann THEN << <<Jane, 1>>, <<JDoe, 2>>, <<Jane, 2>> >>
                        ELSE << <<Ann, 1>> >>],
      venues |-> [n \in Range(RegisteredNames) |->
                        IF n = Ann THEN <<>>
                        ELSE << <<"ACL", 1>>, <<"WS", 3>>, <<"EMNLP", 1>> >>] ]

\* The people index the papers' author and editor lists give.
PeopleOf(papers, canonical) ==
    People(canonical,
           [n \in Range(RegisteredNames) |-> Attributed(papers, Cluster(canonical, n))])

BaseCanonical == [n \in Range(RegisteredNames) |-> IF n = JDoe THEN Jane ELSE n]

BasePapers ==
    << Paper("P19-1001", 2019, {"xml_abstract"}, <<Jane, Ann>>, <<>>),
       Paper("W19-5001", 2019, {"xml_booktitle"}, <<JDoe>>, <<Ann>>) >>

BaseVolumes ==
    << Volume(V10, 2019, {"xml_abstract"}, <<Ann>>, <<"P19-1001">>),
       Volume(V1, 2018, {}, <<>>, <<>>) >>

\* The venues of an anthology with the given volumes: one venue that holds
\* them all.
VenuesOf(volumes) ==
    << Venue("ACL", {volumes[i].attrib["year"] : i \in 1..Len(volumes)},
             {volumes[i].full_id : i \in 1..Len(volumes)}),
       Venue("WS", {}, {}) >>

BaseSigs == << Sig("SIGDAT", {2019, 2018}), Sig("SIGANN", {}) >>

Anthology(papers, people, volumes, venues) ==
    [ papers |-> papers, people |-> people, volumes |-> volumes,
      venues |-> venues, sigs |-> BaseSigs ]

\* The author and editor lists of a paper: none, authors, editors, or an
\* author without a slug.
Credits ==
    { [author |-> <<>>, editor |-> <<>>],
      [author |-> <<JDoe, Jane>>, editor |-> <<>>],
      [author |-> <<>>, editor |-> <<Ann, Jane>>],
      [author |-> <<Jane, Ghost>>, editor |-> <<Ann>>] }

\* The shapes of a paper: its optional fields and its credits.
PaperShapes == [opt : SUBSET {"xml_booktitle", "xml_abstract"}, credits : Credits]

\* Up to MaxPapers papers of any shape.
PaperFamily ==
    UNION {
      { LET papers == [j \in 1..m |->
                         Paper(PaperIds[ids[j]], YearOfId(PaperIds[ids[j]]),
                               sh[j].opt, sh[j].credits.author,
                               sh[j].credits.editor)]
        IN  Anthology(papers, PeopleOf(papers, BaseCanonical),
                      BaseVolumes, VenuesOf(BaseVolumes))
        : ids \in Increasing(m, Len(PaperIds)), sh \in [1..m -> PaperShapes] }
      : m \in 0..MaxPapers }

\* The years of the papers of the people family: two of a kind and one
\* apart, or all the same.
YearMaps == {<<2019, 2018, 2019>>, <<2018, 2019, 2018>>, <<2019, 2019, 2019>>}

\* Every paper with one of these years, any canonical map, and any enumeration of up
\* to MaxPersonPapers papers for the people of Jane Doe's cluster.
PeopleFamily ==
    { LET papers == [j \in 1..Len(PaperIds) |->
                        Paper(PaperIds[j], years[j], {}, <<Jane>>, <<>>)]
      IN  Anthology(papers,
                    People(canonical,
                           [n \in Range(RegisteredNames) |->
                              IF n = Ann THEN <<>> ELSE enum]),
                    BaseVolumes, VenuesOf(BaseVolumes))
      : years \in YearMaps,
        canonical \in CanonicalMaps,
        enum \in Injective(Range(PaperIds) \cup {NoPaper}, MaxPersonPapers) }

\* The shapes of a volume.
VolumeShapes ==
    [ year : Years,
      rest : { [opt |-> {}, editor |-> <<>>],
               [opt |-> {"xml_abstract"}, editor |-> <<>>],
               [opt |-> {"xml_abstract"}, editor |-> <<Ann, JDoe>>],
               [opt |-> {}, editor |-> <<Ghost>>] } ]

\* Up to MaxVolumes volumes of any shape.
VolumeFamily ==
    UNION {
      { LET volumes == [j \in 1..m |->
                          Volume(VolumeIds[ids[j]], sh[j].year, sh[j].rest.opt,
                                 sh[j].rest.editor, <<"P19-1001">>)]
        IN  Anthology(BasePapers, PeopleOf(BasePapers, BaseCanonical),
                      volumes, VenuesOf(volumes))
        : ids \in Increasing(m, Len(VolumeIds)), sh \in [1..m -> VolumeShapes] }
      : m \in 0..MaxVolumes }

\* Up to MaxVolumes volumes of any year, and a venue with any set of years
\* and any set of volume ids, known or not.
VenueFamily ==
    UNION {
      { LET volumes == [j \in 1..Len(c.ids) |->
                          Volume(VolumeIds[c.ids[j]], c.ys[j], {}, <<>>, <<>>)]
        IN  Anthology(BasePapers, PeopleOf(BasePapers, BaseCanonical), volumes,
                      << Venue("ACL", years, vols), Venue("WS", {}, {NoVolume}) >>)
        : years \in SUBSET Years,
          vols \in SUBSET ({VolumeIds[c.ids[j]] : j \in 1..Len(c.ids)} \cup {NoVolume}) }
      : c \in UNION {[ids : Increasing(m, Len(VolumeIds)), ys : [1..m -> Years]]
                     : m \in 0..MaxVolumes} }

Anthologies == PaperFamily \cup PeopleFamily \cup VolumeFamily \cup VenueFamily

BaseAnthology ==
    Anthology(BasePapers, PeopleOf(BasePapers, BaseCanonical), BaseVolumes,
              VenuesOf(BaseVolumes))

\* An anthology whose export raises: a volume id of a venue is unknown.
BrokenAnthology ==
    Anthology(BasePapers, PeopleOf(BasePapers, BaseCanonical), BaseVolumes,
              << Venue("ACL", {2019}, {V10, NoVolume}) >>)


(***************************************************************************)
(* The run of the script.                                                  *)
(***************************************************************************)
VARIABLES
    pc,          \* where the script is
    dryrun,      \* args["--dry-run"]
    dirs,        \* the directories that exist, among outdir's "", papers, people
    writes,      \* the files written, in order
    importdir,   \* what Anthology(importdir) builds, and logs while it does
    anthology,   \* the object graph
    papers,      \* export_anthology's papers
    people,      \* export_anthology's people
    volumes,     \* export_anthology's volumes
    venues,      \* export_anthology's venues
    sigs,        \* export_anthology's sigs
    next,        \* the position of a dump loop in its index
    exportlog,   \* the level at which a collaborator logs during the export
    logged,      \* whether it has
    highest,     \* tracker.highest
    status       \* the exit status of the process

vars == <<pc, dryrun, dirs, writes, importdir, anthology, papers, people, volumes,
          venues, sigs, next, exportlog, logged, highest, status>>

\* The inputs of the run.
inputs == <<dryrun, importdir, exportlog>>

indexes == <<papers, people, volumes, venues, sigs>>

\* The levels of the logging module.
NOTSET == 0
INFO == 20
WARNING == 30
ERROR == 40
CRITICAL == 50

\* SeverityTracker.emit: the highest level seen.
emit(h, levelno) == IF levelno > h THEN levelno ELSE h

Subdirs == <<"", "papers", "people">>

\* The states of the output directory before the run.
PriorDirs == {{}, {""}, {"", "papers"}, {"", "papers", "people"}}

None == "None"

\* The levels at which the collaborators log: not at all, or below, at or
\* above ERROR.
Severities == {NOTSET, WARNING, ERROR, CRITICAL}

\* The runs of the script: any anthology, read without a message, into an
\* output directory that is all there; and an anthology that exports and one
\* that does not, read with any message, into any output directory.
Runs ==
    [ dryrun : BOOLEAN, dirs : {Range(Subdirs)}, exportlog : {NOTSET},
      importdir : [graph : Anthologies, severity : {NOTSET}] ]
    \cup
    [ dryrun : BOOLEAN, dirs : PriorDirs, exportlog : Severities,
      importdir : [graph : {BaseAnthology, BrokenAnthology}, severity : Severities] ]

Init ==
    /\ pc = "main"
    /\ \E run \in Runs :
          /\ dryrun = run.dryrun
          /\ dirs = run.dirs
          /\ importdir = run.importdir
          /\ exportlog = run.exportlog
    /\ logged = FALSE
    /\ writes = <<>>
    /\ anthology = None
    /\ papers = EmptyIndex
    /\ people = EmptyIndex
    /\ volumes = EmptyDict
    /\ venues = EmptyDict
    /\ sigs = EmptyDict
    /\ next = 1
    /\ highest = NOTSET
    /\ status = None

\* log.info("Reading the Anthology data..."); anthology = Anthology(...),
\* which logs as the import directory makes it.
ReadAnthology ==
    /\ pc = "main"
    /\ anthology' = importdir.graph
    /\ highest' = emit(emit(highest, INFO), importdir.severity)
    /\ pc' = "loaded"
    /\ UNCHANGED <<inputs, dirs, writes, indexes, next, logged, status>>

\* log.info("Exporting to YAML...") and the directory loop of
\* export_anthology, which does not look at dryrun.
CreateDirectories ==
    /\ pc = "loaded"
    /\ highest' = emit(highest, INFO)
    /\ dirs' = dirs \cup Range(Subdirs)
    /\ pc' = "papers"
    /\ UNCHANGED <<inputs, writes, anthology, indexes, next, logged, status>>

\* A collaborator logs while the records are built: the tracker is a handler
\* of the root logger from before the anthology is read.
CollaboratorLogs ==
    /\ pc \in {"papers", "people", "volumes", "venues", "sigs"}
    /\ exportlog # NOTSET
    /\ ~logged
    /\ logged' = TRUE
    /\ highest' = emit(highest, exportlog)
    /\ UNCHANGED <<pc, inputs, dirs, writes, anthology, indexes, next, status>>

PreparePaperIndex ==
    /\ pc = "papers"
    /\ LET r == PaperIndex(anthology)
       IN  IF r.ok THEN papers' = r.val /\ pc' = "people"
           ELSE papers' = papers /\ pc' = "raised"
    /\ UNCHANGED <<inputs, dirs, writes, anthology, people, volumes, venues,
                   sigs, next, logged, highest, status>>

PreparePeopleIndex ==
    /\ pc = "people"
    /\ LET r == PeopleIndex(anthology)
       IN  IF r.ok THEN people' = r.val /\ pc' = "volumes"
           ELSE people' = people /\ pc' = "raised"
    /\ UNCHANGED <<inputs, dirs, writes, anthology, papers, volumes, venues,
                   sigs, next, logged, highest, status>>

PrepareVolumeIndex ==
    /\ pc = "volumes"
    /\ LET r == VolumeIndex(anthology)
       IN  /\ anthology' = [anthology EXCEPT !.volumes = r.objects]
           /\ IF r.ok THEN volumes' = r.volumes /\ pc' = "venues"
              ELSE volumes' = volumes /\ pc' = "raised"
    /\ UNCHANGED <<inputs, dirs, writes, papers, people, venues, sigs, next,
                   logged, highest, status>>

PrepareVenueIndex ==
    /\ pc = "venues"
    /\ LET r == VenueIndex(anthology, volumes)
       IN  IF r.ok THEN venues' = r.val /\ pc' = "sigs"
           ELSE venues' = venues /\ pc' = "raised"
    /\ UNCHANGED <<inputs, dirs, writes, anthology, papers, people, volumes,
                   sigs, next, logged, highest, status>>

\* The SIG loop, and "if not dryrun".
PrepareSigIndex ==
    /\ pc = "sigs"
    /\ sigs' = SigIndex(anthology)
    /\ pc' = IF dryrun THEN "returned" ELSE "dump_papers"
    /\ next' = 1
    /\ UNCHANGED <<inputs, dirs, writes, anthology, papers, people, volumes,
                   venues, logged, highest, status>>

\* open(path, "w") and yaml.dump
Dump(path) == writes' = Append(writes, path)

DumpPaperGroup ==
    /\ pc = "dump_papers"
    /\ next <= Len(papers.order)
    /\ Dump(<<"papers", papers.order[next]>>)
    /\ next' = next + 1
    /\ UNCHANGED <<pc, inputs, dirs, anthology, indexes, logged, highest, status>>

DumpVolumes ==
    /\ pc = "dump_papers"
    /\ next > Len(papers.order)
    /\ Dump(<<"volumes">>)
    /\ pc' = "dump_venues"
    /\ UNCHANGED <<inputs, dirs, anthology, indexes, next, logged, highest, status>>

DumpVenues ==
    /\ pc = "dump_venues"
    /\ Dump(<<"venues">>)
    /\ pc' = "dump_sigs"
    /\ UNCHANGED <<inputs, dirs, anthology, indexes, next, logged, highest, status>>

DumpSigs ==
    /\ pc = "dump_sigs"
    /\ Dump(<<"sigs">>)
    /\ pc' = "dump_people"
    /\ next' = 1
    /\ UNCHANGED <<inputs, dirs, anthology, indexes, logged, highest, status>>

DumpPeopleBucket ==
    /\ pc = "dump_people"
    /\ next <= Len(people.order)
    /\ Dump(<<"people", people.order[next]>>)
    /\ next' = next + 1
    /\ UNCHANGED <<pc, inputs, dirs, anthology, indexes, logged, highest, status>>

Return ==
    /\ pc = "dump_people"
    /\ next > Len(people.order)
    /\ pc' = "returned"
    /\ UNCHANGED <<inputs, dirs, writes, anthology, indexes, next, logged,
                   highest, status>>

\* A faulty variant of ExitStatus: only a level above ERROR fails the run.
ExitStatusAboveError(h) == IF h > ERROR THEN 1 ELSE 0

\* if tracker.highest >= log.ERROR: exit(1); otherwise the script ends.
ExitStatus(h) == IF h >= ERROR THEN 1 ELSE 0

Exit ==
    /\ pc = "returned"
    /\ status' = ExitStatus(highest)
    /\ pc' = "exited"
    /\ UNCHANGED <<inputs, dirs, writes, anthology, indexes, next, logged, highest>>

\* An exception of export_anthology is caught nowhere: the interpreter
\* prints the traceback and exits with status 1.
UncaughtException ==
    /\ pc = "raised"
    /\ status' = 1
    /\ pc' = "crashed"
    /\ UNCHANGED <<inputs, dirs, writes, anthology, indexes, next, logged, highest>>

Next ==
    \/ ReadAnthology
    \/ CreateDirectories
    \/ CollaboratorLogs
    \/ PreparePaperIndex
    \/ PreparePeopleIndex
    \/ PrepareVolumeIndex
    \/ PrepareVenueIndex
    \/ PrepareSigIndex
    \/ DumpPaperGroup
    \/ DumpVolumes
    \/ DumpVenues
    \/ DumpSigs
    \/ DumpPeopleBucket
    \/ Return
    \/ Exit
    \/ UncaughtException

Spec == Init /\ [][Next]_vars


(***************************************************************************)
(* The properties.                                                         *)
(***************************************************************************)
\* The object graph as Anthology(importdir) built it.
graph == importdir.graph

\* Where the script is once the papers, people, volumes and venues loops
\* have ended without an exception.
Dumping == {"dump_papers", "dump_venues", "dump_sigs", "dump_people"}
AfterVenues == {"sigs", "returned", "exited"} \cup Dumping
AfterVolumes == {"venues"} \cup AfterVenues
AfterPeople == {"volumes"} \cup AfterVolumes
AfterPapers == {"people"} \cup AfterPeople

\* The record the papers index holds for a paper, wherever it is.
PaperSlots(P) ==
    {g \in DOMAIN papers.map : P.full_id \in DOMAIN papers.map[g]}

\* The record the people index holds under a slug, wherever it is.
PersonRecord(slug) ==
    LET b == CHOOSE c \in DOMAIN people.map : slug \in DOMAIN people.map[c]
    IN  people.map[b][slug]

\* The year of the paper with the given id.
YearOfPaper(p) ==
    LET P == CHOOSE q \in Range(graph.papers) : q.full_id = p
    IN  P.attrib["year"]

\* The position of an element in a sequence without repetition.
IndexIn(s, x) == CHOOSE i \in 1..Len(s) : s[i] = x

\* s is strictly ascending as a list of strings.
AscendingStrings(s) ==
    \A i \in 1..Len(s) : \A j \in 1..Len(s) :
        i < j => (s[i] # s[j] /\ KeyLeq(StrKey(s[i]), StrKey(s[j])))

\* s is strictly ascending as a list of ints.
AscendingInts(s) ==
    \A i \in 1..Len(s) : \A j \in 1..Len(s) : i < j => s[i] < s[j]

\* C1: export_anthology never mutates the input object graph: once the
\* anthology is read, every entity has the keys and values it was read with.
InputNeverMutated == pc # "main" => anthology = graph

\* C2: in a dry run no step creates or modifies a directory or a file of
\* the output location.
DryRunWritesNothing == [][dryrun => (dirs' = dirs /\ writes' = writes)]_vars

\* C3: once the papers index is built, every input paper has its record
\* under exactly one group key, its top-level id, and under its full id
\* there; the index holds as many records as there are input papers.
PaperGroupingTotal ==
    pc \in AfterPapers =>
        /\ \A P \in Range(graph.papers) :
              /\ PaperSlots(P) = {P.top_level_id}
              /\ papers.map[P.top_level_id][P.full_id]["title"] = P.attrib["title"]
        /\ UNION {DOMAIN papers.map[g] : g \in DOMAIN papers.map}
              = {P.full_id : P \in Range(graph.papers)}
        /\ \A g \in DOMAIN papers.map : \A h \in DOMAIN papers.map :
              g # h => DOMAIN papers.map[g] \cap DOMAIN papers.map[h] = {}

\* C3's case: two papers of one group and a paper of another are indexed.
PaperGroupingWitness ==
    /\ pc = "people"
    /\ \E P \in Range(graph.papers) : \E Q \in Range(graph.papers) :
          P # Q /\ P.top_level_id = Q.top_level_id
    /\ Cardinality(DOMAIN papers.map) = 2

\* C4: once the venue index is built, each venue's volumes_by_year has the
\* venue's years as its keys, each year maps to the ascending list of the
\* venue's volume ids whose record in the volumes index has that year,
\* 'years' is the ascending list of the years, and there is no 'volumes'.
VenueVolumesByYear ==
    pc \in AfterVenues =>
        \A i \in 1..Len(graph.venues) :
            LET venue == graph.venues[i]
                rec == venues[venue.acronym]
                by_year == rec["volumes_by_year"]
            IN  /\ DOMAIN by_year = venue.data["years"]
                /\ \A y \in DOMAIN by_year :
                      /\ AscendingStrings(by_year[y])
                      /\ Range(by_year[y])
                            = {k \in venue.data["volumes"] : volumes[k]["year"] = y}
                /\ AscendingInts(rec["years"])
                /\ Range(rec["years"]) = venue.data["years"]
                /\ "volumes" \notin DOMAIN rec

\* C4's case: a venue of two years, one of them with two volumes and the
\* other with none.
VenueVolumesWitness ==
    /\ pc = "sigs"
    /\ \E a \in DOMAIN venues :
          /\ Len(venues[a]["years"]) = 2
          /\ \E y \in DOMAIN venues[a]["volumes_by_year"] :
                Len(venues[a]["volumes_by_year"][y]) = 2
          /\ \E y \in DOMAIN venues[a]["volumes_by_year"] :
                venues[a]["volumes_by_year"][y] = <<>>

\* C5: once the people index is built, the 'papers' of every canonical name
\* are in descending order of year, papers of one year are in the order of
\* get_papers(name, include_variants=True), and there are as many entries
\* as distinct papers in that enumeration.
PersonPapersSorted ==
    pc \in AfterPeople =>
        \A n \in Range(graph.people.names) :
            graph.people.canonical[n] = n =>
                LET enum == graph.people.papers[n]
                    out == PersonRecord(graph.people.slugs[n])["papers"]
                IN  /\ Len(out) = Cardinality(Range(enum))
                    /\ Range(out) = Range(enum)
                    /\ \A i \in 1..Len(out) : \A j \in 1..Len(out) :
                          i < j =>
                            /\ YearOfPaper(out[i]) >= YearOfPaper(out[j])
                            /\ YearOfPaper(out[i]) = YearOfPaper(out[j])
                                  => IndexIn(enum, out[i]) < IndexIn(enum, out[j])

\* C5's case: a canonical name with three papers, two of one year with a
\* paper of a later year enumerated between them.
PersonPapersWitness ==
    /\ pc = "volumes"
    /\ \E n \in Range(graph.people.names) :
          /\ graph.people.canonical[n] = n
          /\ LET enum == graph.people.papers[n]
             IN  /\ Len(enum) = 3
                 /\ YearOfPaper(enum[1]) = YearOfPaper(enum[3])
                 /\ YearOfPaper(enum[2]) > YearOfPaper(enum[1])
                 /\ PersonRecord(graph.people.slugs[n])["papers"]
                        = <<enum[2], enum[1], enum[3]>>

\* C6: once the people index is built, the record of a variant name has
\* 'canonical_entry', the slug of its canonical name, and none of 'papers',
\* 'coauthors', 'venues', 'variant_entries'; the record of a canonical name
\* has 'papers', 'coauthors' and 'venues' and no 'canonical_entry'.
PeopleRecordShapes ==
    pc \in AfterPeople =>
        \A n \in Range(graph.people.names) :
            LET rec == PersonRecord(graph.people.slugs[n])
                canonical == graph.people.canonical[n]
            IN  IF canonical # n
                THEN /\ "canonical_entry" \in DOMAIN rec
                     /\ rec["canonical_entry"] = graph.people.slugs[canonical]
                     /\ DOMAIN rec \cap {"papers", "coauthors", "venues",
                                         "variant_entries"} = {}
                ELSE /\ {"papers", "coauthors", "venues"} \subseteq DOMAIN rec
                     /\ "canonical_entry" \notin DOMAIN rec

\* C6's case: a variant and its canonical name are both indexed.
PeopleRecordWitness ==
    /\ pc = "volumes"
    /\ \E n \in Range(graph.people.names) :
          /\ graph.people.canonical[n] # n
          /\ "canonical_entry" \in DOMAIN PersonRecord(graph.people.slugs[n])
          /\ "variant_entries"
                \in DOMAIN PersonRecord(graph.people.slugs[graph.people.canonical[n]])

\* A lookup of the record construction fails on the object graph: a name
\* of a paper or a volume has no slug, a paper of a canonical name is not
\* in the papers collection, or a volume id of a venue with years is not in
\* the volumes collection.
LookupFails(g) ==
    \/ \E P \in Range(g.papers) : ~(NamesOn(P) \subseteq DOMAIN g.people.slugs)
    \/ \E n \in Range(g.people.names) :
          /\ g.people.canonical[n] = n
          /\ ~(Range(g.people.papers[n])
                  \subseteq {P.full_id : P \in Range(g.papers)})
    \/ \E V \in Range(g.volumes) : ~(NamesOn(V) \subseteq DOMAIN g.people.slugs)
    \/ \E v \in Range(g.venues) :
          /\ v.data["years"] # {}
          /\ ~(v.data["volumes"] \subseteq {V.full_id : V \in Range(g.volumes)})

\* C7: when a lookup fails, the export never gets to the dump and never
\* returns: no output unit is written, and the process ends by the
\* exception, with a non-zero status.
NoPartialSuccess ==
    LookupFails(graph) =>
        /\ writes = <<>>
        /\ pc \notin Dumping \cup {"returned", "exited"}
        /\ pc = "crashed" => status = 1

\* C7's case: a run that is not a dry run has ended by a failed lookup.
NoPartialSuccessWitness ==
    /\ pc = "crashed"
    /\ ~dryrun
    /\ LookupFails(graph)
    /\ papers # EmptyIndex

\* A message at ERROR or above has been emitted, while the anthology was
\* read or during the export.
ErrorEmitted ==
    \/ pc # "main" /\ importdir.severity >= ERROR
    \/ logged /\ exportlog >= ERROR

\* C8: a process that ends after a message at ERROR or above has a
\* non-zero exit status; one that ends after a completed export without
\* such a message has exit status zero.
ExitStatusReportsErrors ==
    /\ pc \in {"exited", "crashed"} /\ ErrorEmitted => status # 0
    /\ pc = "exited" /\ ~ErrorEmitted => status = 0

\* C8's case: the export completed and wrote its files, and a message at
\* ERROR, not above, was emitted during the export.
ExitStatusWitness ==
    /\ pc = "exited"
    /\ ~dryrun
    /\ writes # <<>>
    /\ logged
    /\ exportlog = ERROR
    /\ importdir.severity < ERROR
    /\ status = 1

\* The output units of an object graph: one per top-level id of a paper,
\* one per first character of a slug, and volumes, venues and sigs.
ExpectedUnits(g) ==
    {<<"papers", P.top_level_id>> : P \in Range(g.papers)}
    \cup {<<"people", g.people.slugs[n][1]>> : n \in Range(g.people.names)}
    \cup {<<"volumes">>, <<"venues">>, <<"sigs">>}

\* C9: a run that is not a dry run and returns has written each expected
\* unit once and nothing else; and whenever a unit has been written, the
\* five indexes are the ones the record construction gives.
OneUnitEach ==
    /\ (pc = "returned" /\ ~dryrun) =>
          /\ Range(writes) = ExpectedUnits(graph)
          /\ Len(writes) = Cardinality(ExpectedUnits(graph))
    /\ \A i \in 1..Len(writes) : \A j \in 1..Len(writes) :
          i # j => writes[i] # writes[j]
    /\ writes # <<>> =>
          /\ papers = PaperIndex(graph).val
          /\ people = PeopleIndex(graph).val
          /\ volumes = VolumeIndex(graph).volumes
          /\ venues = VenueIndex(graph, volumes).val
          /\ sigs = SigIndex(graph)

\* C9's case: a run has returned after writing two paper groups, two people
\* buckets and the three combined units.
OneUnitEachWitness ==
    /\ pc = "returned"
    /\ ~dryrun
    /\ Len(writes) = 7

\* C10: once the papers index is built, every paper's record has
\* 'title_html' and no 'xml_title'; it has 'booktitle_html' and
\* 'abstract_html' exactly when the paper had 'xml_booktitle' and
\* 'xml_abstract', which it has not; and its 'author' and 'editor' lists
\* are the slugs of the paper's names, in their order.
PaperRecordFields ==
    pc \in AfterPapers =>
        \A P \in Range(graph.papers) :
            LET rec == papers.map[P.top_level_id][P.full_id]
            IN  /\ "title_html" \in DOMAIN rec
                /\ DOMAIN rec \cap {"xml_title", "xml_booktitle", "xml_abstract"} = {}
                /\ "booktitle_html" \in DOMAIN rec <=> "xml_booktitle" \in DOMAIN P.attrib
                /\ "abstract_html" \in DOMAIN rec <=> "xml_abstract" \in DOMAIN P.attrib
                /\ \A key \in {"author", "editor"} :
                      /\ key \in DOMAIN rec <=> key \in DOMAIN P.attrib
                      /\ key \in DOMAIN P.attrib =>
                            /\ Len(rec[key]) = Len(P.attrib[key])
                            /\ \A i \in 1..Len(rec[key]) :
                                  rec[key][i] = graph.people.slugs[P.attrib[key][i]]

\* C10's case: a paper with a booktitle, no abstract and two authors is
\* indexed.
PaperRecordWitness ==
    /\ pc = "people"
    /\ \E P \in Range(graph.papers) :
          LET rec == papers.map[P.top_level_id][P.full_id]
          IN  /\ "booktitle_html" \in DOMAIN rec
              /\ "abstract_html" \notin DOMAIN rec
              /\ "author" \in DOMAIN rec
              /\ Len(rec["author"]) = 2
              /\ rec["author"][1] # rec["author"][2]

=============================================================================
